---- MODULE Spec2Model ----
(***************************************************************************)
(* A model of run.py: the training / prediction / submission pipeline of   *)
(* the click-fraud detector.                                                *)
(*                                                                         *)
(* Data frames are modelled by what the pipeline reads of them: the row    *)
(* index, the column names and the values of the two columns the pipeline  *)
(* looks at (is_attributed, click_id).  Feature values are never inspected *)
(* by run.py and are left out.  Floating point numbers are modelled as     *)
(* exact rationals [num, den].                                             *)
(***************************************************************************)
EXTENDS Integers, Sequences, FiniteSets, TLC

(***************************************************************************)
(* Bounds of the model.                                                    *)
(***************************************************************************)
MaxLen == 5        \* rows of a data set handed to negative_down_sampling alone
MaxSeed == 1       \* seeds 0..MaxSeed handed to negative_down_sampling alone
MaxFrames == 3     \* feature frames handed to load_dataset alone
MaxRows == 2       \* rows of a split source file / of a cached feature frame
MaxId == 3         \* old click identifiers 1..MaxId
MaxMap == 2        \* rows of the identity map
MaxBag == 2        \* configured bagging_size 0..MaxBag
MaxProb == 1       \* predicted scores 0..MaxProb (a fixed-point scale)
MaxAuc == 1        \* AUC values 0..MaxAuc (a fixed-point scale)

(***************************************************************************)
(* Values.                                                                 *)
(***************************************************************************)
NaN == -1          \* a missing value (pandas fills NaN when it reindexes)
None == -2         \* Python's None
target_variable == "is_attributed"

Range(s) == {s[k] : k \in DOMAIN s}

RECURSIVE SeqSum(_)
SeqSum(s) == IF s = <<>> THEN 0 ELSE Head(s) + SeqSum(Tail(s))

\* Sequences over S of length lo..hi.
SeqsOf(S, lo, hi) == UNION {[1..n -> S] : n \in lo..hi}

\* Sequences of n distinct elements of S, in any order.
Arrangements(S, n) == {q \in [1..n -> S] : \A a, b \in 1..n : a # b => q[a] # q[b]}

\* The index pandas gives a frame read from a feather file: 0, 1, ..., n-1.
RangeIndex(n) == [k \in 1..n |-> k - 1]

\* Python 3's round() of the rational num/den (den > 0, num >= 0): to the
\* nearest integer, a tie to the even one.
RoundHalfEven(num, den) ==
    LET q == num \div den
        r == num % den
    IN  IF 2 * r < den THEN q
        ELSE IF 2 * r > den THEN q + 1
        ELSE IF q % 2 = 0 THEN q ELSE q + 1

(***************************************************************************)
(* Labelled frames: [index, columns, is_attributed], the label of row k    *)
(* being is_attributed[k].                                                 *)
(***************************************************************************)
\* data[data[target_variable] == v]: the rows whose label is v, in order.
RowsWithLabel(data, v) ==
    LET keep == SelectSeq([k \in 1..Len(data.index) |-> k],
                          LAMBDA k : data.is_attributed[k] = v)
    IN  [index |-> [j \in 1..Len(keep) |-> data.index[keep[j]]],
         columns |-> data.columns,
         is_attributed |-> [j \in 1..Len(keep) |-> data.is_attributed[keep[j]]]]

\* pd.concat([a, b]): the rows of a, then the rows of b.
ConcatRows(a, b) ==
    [index |-> a.index \o b.index,
     columns |-> a.columns,
     is_attributed |-> a.is_attributed \o b.is_attributed]

\* The rows of data at the positions pos, in that order.
TakeRows(data, pos) ==
    [index |-> [j \in 1..Len(pos) |-> data.index[pos[j]]],
     columns |-> data.columns,
     is_attributed |-> [j \in 1..Len(pos) |-> data.is_attributed[pos[j]]]]

\* frac = positive_ratio / (1 - positive_ratio) with positive_ratio =
\* len(positive_data) / len(data), as the rational [num, den]:
\* (P/N) / ((N-P)/N) = P / (N-P).
MutSamplingFracNoOdds(data) ==
    [num |-> Len(RowsWithLabel(data, 1).index), den |-> Len(data.index)]
SamplingFrac(data) ==
    LET P == Len(RowsWithLabel(data, 1).index)
        N == Len(data.index)
    IN  [num |-> P, den |-> N - P]

\* DataFrame.sample(frac=f): n = round(f * len(frame)) rows.
SampleSize(frac, len) == RoundHalfEven(frac.num * len, frac.den)

\* negative_down_sampling(data, random_state): every result the call can
\* have.  Which rows the seeded draw picks is a property of the random
\* generator; every draw without replacement of the computed size is a
\* possible one.  ZeroDivisionError: len(data) = 0, or positive_ratio = 1.
\* ValueError: frac > 1 (a sample without replacement larger than the
\* population).
negative_down_sampling(data, random_state) ==
    LET N == Len(data.index)
        positive_data == RowsWithLabel(data, 1)
        negatives == RowsWithLabel(data, 0)
        frac == SamplingFrac(data)
        n == SampleSize(frac, Len(negatives.index))
    IN  IF N = 0 \/ frac.den = 0
          THEN {[ok |-> FALSE, err |-> "ZeroDivisionError"]}
        ELSE IF frac.num > frac.den
          THEN {[ok |-> FALSE, err |-> "ValueError"]}
        ELSE {[ok |-> TRUE, random_state |-> random_state,
               value |-> ConcatRows(positive_data, TakeRows(negatives, pos))] :
                 pos \in Arrangements(1..Len(negatives.index), n)}

(***************************************************************************)
(* Feature frames and load_dataset.                                        *)
(***************************************************************************)
\* pd.read_feather(path) of a cached feature frame of n rows: feather files
\* carry no index, so the frame gets the default one.
read_feather(feature, n) == [index |-> RangeIndex(n), columns |-> <<feature>>]

NoFrame == [index |-> <<>>, columns |-> <<>>]

RECURSIVE ConcatColumns(_)
ConcatColumns(frames) ==
    IF frames = <<>> THEN <<>>
    ELSE Head(frames).columns \o ConcatColumns(Tail(frames))

\* load_dataset(paths, index), given the frames read_feather returns for the
\* paths.  index is an option: {} is None, {ix} is the index ix.  With an
\* index the code calls .loc(index) instead of subscripting it, which yields
\* no frame: the call cannot get past line 72.
MutLoadDatasetFirstTwo(frames, index) ==
    IF Len(frames) = 0 \/ index # {}
      THEN [ok |-> FALSE, err |-> "AssertionError", value |-> NoFrame]
    ELSE IF Len(frames) >= 2 /\ frames[2].index # frames[1].index
      THEN [ok |-> FALSE, err |-> "AssertionError: index", value |-> NoFrame]
    ELSE [ok |-> TRUE, err |-> "",
          value |-> [index |-> frames[1].index, columns |-> ConcatColumns(frames)]]
load_dataset(frames, index) ==
    IF Len(frames) = 0
      THEN [ok |-> FALSE, err |-> "AssertionError", value |-> NoFrame]
    ELSE IF index # {}
      THEN [ok |-> FALSE, err |-> "IndexerError", value |-> NoFrame]
    ELSE IF \E k \in 2..Len(frames) : frames[k].index # frames[1].index
      THEN [ok |-> FALSE, err |-> "AssertionError: index", value |-> NoFrame]
    ELSE [ok |-> TRUE, err |-> "",
          value |-> [index |-> frames[1].index, columns |-> ConcatColumns(frames)]]

(***************************************************************************)
(* Registries and configuration.                                           *)
(***************************************************************************)
feature_map ==
    {"ip", "app", "os", "device", "channel", "hour", "count",
     "future_click_count_10", "past_click_count_10",
     "future_click_count_80", "past_click_count_80",
     "future_click_ratio_10", "past_click_ratio_10",
     "future_click_ratio_80", "past_click_ratio_80"}

models == {"lightgbm"}

Splits == {"train", "valid", "test_full"}

\* Files, as <<kind, name>>.
ConfigFile == <<"config", "">>
IdMapperFile == <<"id_mapper", "">>
SourceFile(split) == <<"source", split>>
CacheFile(split) == <<"cache", split>>
DatasetFiles == {SourceFile(s) : s \in Splits} \cup {CacheFile(s) : s \in Splits}

(***************************************************************************)
(* State.                                                                  *)
(*   config, disk, lgbm: the run's inputs: the parsed configuration file,  *)
(*     the files on disk, and what the external model returns per          *)
(*     training run (keyed by the random_state of its training sample,     *)
(*     None for the full data).                                            *)
(*   pc, err: where main is, and the exception that ended it.              *)
(*   reads: the files read so far.                                         *)
(*   The rest are main's variables and the two files it writes.            *)
(***************************************************************************)
VARIABLES config, disk, lgbm, pc, err, reads,
          id_mapper, ids_we_need, train_data, valid_data, test_data,
          sampled_train_data, sampled_valid_data,
          predictions, train_results, i, old_click_to_prediction,
          submission_csv, result_json,
          ds_data, ds_seed, ds_out,
          ld_frames, ld_index, ld_out

mainvars == <<config, disk, lgbm, pc, err, reads,
              id_mapper, ids_we_need, train_data, valid_data, test_data,
              sampled_train_data, sampled_valid_data,
              predictions, train_results, i, old_click_to_prediction,
              submission_csv, result_json>>
dsvars == <<ds_data, ds_seed, ds_out>>
ldvars == <<ld_frames, ld_index, ld_out>>
vars == <<mainvars, dsvars, ldvars>>

Absent == None             \* a cache file that does not exist
NotCalled == [ok |-> FALSE, err |-> "not called"]
NotWritten == [written |-> FALSE]
NoLabelled == [index |-> <<>>, columns |-> <<>>, is_attributed |-> <<>>]
NoTest == [index |-> <<>>, columns |-> <<>>, click_id |-> <<>>, prediction |-> <<>>]
NoSample == [ok |-> FALSE, err |-> "unbound"]
EmptyDict == [k \in {} |-> 0]

LabelledFrame(labels) ==
    [index |-> RangeIndex(Len(labels)), columns |-> <<"ip", target_variable>>,
     is_attributed |-> labels]

\* The state of main when it is entered.
MainStart(cfg, dsk, model) ==
    /\ config = cfg
    /\ disk = dsk
    /\ lgbm = model
    /\ pc = "main"
    /\ err = ""
    /\ reads = {}
    /\ id_mapper = <<>>
    /\ ids_we_need = {}
    /\ train_data = NoLabelled
    /\ valid_data = NoLabelled
    /\ test_data = NoTest
    /\ sampled_train_data = NoSample
    /\ sampled_valid_data = NoSample
    /\ predictions = <<>>
    /\ train_results = <<>>
    /\ i = 0
    /\ old_click_to_prediction = EmptyDict
    /\ submission_csv = NotWritten
    /\ result_json = NotWritten

\* main is not running.
MainIdle ==
    MainStart([model_name |-> "", features |-> <<>>, enabled |-> FALSE, bagging_size |-> 0],
              [id_mapper_exists |-> FALSE], <<>>)
DSIdle == ds_data = NoLabelled /\ ds_seed = 0 /\ ds_out = NotCalled
LDIdle == ld_frames = <<>> /\ ld_index = {} /\ ld_out = NotCalled

\* raise: the exception ends the run.
Raise(e) == pc' = "failed" /\ err' = e

(***************************************************************************)
(* negative_down_sampling on its own: the inputs are drawn by DSInit.      *)
(***************************************************************************)
DSInit ==
    /\ ds_data \in {LabelledFrame(l) : l \in SeqsOf({0, 1}, 0, MaxLen)}
    /\ ds_seed \in 0..MaxSeed
    /\ ds_out = NotCalled
    /\ MainIdle
    /\ LDIdle

DSCall ==
    /\ ds_out = NotCalled
    /\ ds_out' \in negative_down_sampling(ds_data, ds_seed)
    /\ UNCHANGED <<ds_data, ds_seed, mainvars, ldvars>>

DSNext == DSCall

SpecDS == DSInit /\ [][DSNext]_vars

(***************************************************************************)
(* load_dataset on its own: the k-th path holds the cached frame of the    *)
(* k-th feature.                                                           *)
(***************************************************************************)
LDFeatures == <<"ip", "app", "os", "device", "channel", "hour", "count">>

LDInit ==
    /\ \E lens \in SeqsOf(0..MaxRows, 0, MaxFrames) :
         ld_frames = [k \in 1..Len(lens) |-> read_feather(LDFeatures[k], lens[k])]
    /\ ld_index \in {{}, {<<0>>}}
    /\ ld_out = NotCalled
    /\ MainIdle
    /\ DSIdle

LDCall ==
    /\ ld_out = NotCalled
    /\ ld_out' = load_dataset(ld_frames, ld_index)
    /\ UNCHANGED <<ld_frames, ld_index, mainvars, dsvars>>

LDNext == LDCall

SpecLD == LDInit /\ [][LDNext]_vars

(***************************************************************************)
(* main.                                                                   *)
(***************************************************************************)
\* The length of the cached frame of (feature, split), Absent without one.
CacheLen(dsk, feature, split) ==
    IF feature \in DOMAIN dsk.cache THEN dsk.cache[feature][split] ELSE Absent

\* Lines 140-144: parse the arguments, read the configuration, check the
\* model's name.
ParseConfig ==
    /\ pc = "main"
    /\ reads' = reads \cup {ConfigFile}
    /\ IF config.model_name \in models
         THEN pc' = "id_mapper" /\ err' = err
         ELSE Raise("AssertionError: model")
    /\ UNCHANGED <<config, disk, lgbm, id_mapper, ids_we_need, train_data, valid_data,
                   test_data, sampled_train_data, sampled_valid_data, predictions,
                   train_results, i, old_click_to_prediction, submission_csv,
                   result_json, dsvars, ldvars>>

\* Lines 146-149: the identity map must exist; read it; its old ids are the
\* ids we need.
ReadIdMapper ==
    /\ pc = "id_mapper"
    /\ IF disk.id_mapper_exists
         THEN /\ id_mapper' = disk.id_mapper
              /\ ids_we_need' = {id_mapper'[k].old_click_id : k \in DOMAIN id_mapper'}
              /\ reads' = reads \cup {IdMapperFile}
              /\ pc' = "load_datasets" /\ err' = err
         ELSE /\ Raise("AssertionError: id_mapper")
              /\ UNCHANGED <<id_mapper, ids_we_need, reads>>
    /\ UNCHANGED <<config, disk, lgbm, train_data, valid_data,
                   test_data, sampled_train_data, sampled_valid_data, predictions,
                   train_results, i, old_click_to_prediction, submission_csv,
                   result_json, dsvars, ldvars>>

\* Lines 84-89, the head of load_datasets: every configured feature must be
\* registered, and there must be one at least.
MutResolveFeaturesUnchecked ==
    /\ pc = "load_datasets"
    /\ IF Len(config.features) = 0
         THEN Raise("AssertionError: no feature")
         ELSE pc' = "create_features" /\ err' = err
    /\ UNCHANGED <<config, disk, lgbm, reads, id_mapper, ids_we_need, train_data,
                   valid_data, test_data, sampled_train_data, sampled_valid_data,
                   predictions, train_results, i, old_click_to_prediction,
                   submission_csv, result_json, dsvars, ldvars>>
ResolveFeatures ==
    /\ pc = "load_datasets"
    /\ IF \E k \in DOMAIN config.features : config.features[k] \notin feature_map
         THEN Raise("AssertionError: Uknown feature")
         ELSE IF Len(config.features) = 0
           THEN Raise("AssertionError: no feature")
           ELSE pc' = "create_features" /\ err' = err
    /\ UNCHANGED <<config, disk, lgbm, reads, id_mapper, ids_we_need, train_data,
                   valid_data, test_data, sampled_train_data, sampled_valid_data,
                   predictions, train_results, i, old_click_to_prediction,
                   submission_csv, result_json, dsvars, ldvars>>

\* feature.create_features(train_path, valid_path, test_path), for one
\* split: the length of the cached frame it returns the path of.  A cached
\* frame that exists is reused as it is; one that does not is computed from
\* the split's source file, one value per event, and stored.
create_features(dsk, feature, split) ==
    IF CacheLen(dsk, feature, split) = Absent
      THEN Len(dsk.source[split])
      ELSE CacheLen(dsk, feature, split)

\* Lines 91-98: the paths of the splits, create_features of every feature,
\* the paths of the cached frames.
CreateFeatures ==
    /\ pc = "create_features"
    /\ LET fs == Range(config.features)
           computed == {s \in Splits : \E f \in fs : CacheLen(disk, f, s) = Absent}
       IN  /\ disk' = [disk EXCEPT !.cache =
                  [f \in DOMAIN disk.cache \cup fs |->
                     [s \in Splits |->
                        IF f \in fs THEN create_features(disk, f, s)
                                    ELSE CacheLen(disk, f, s)]]]
           /\ reads' = reads \cup {SourceFile(s) : s \in computed}
    /\ pc' = "load_dataset"
    /\ UNCHANGED <<config, lgbm, err, id_mapper, ids_we_need, train_data,
                   valid_data, test_data, sampled_train_data, sampled_valid_data,
                   predictions, train_results, i, old_click_to_prediction,
                   submission_csv, result_json, dsvars, ldvars>>

\* The frames read_feather returns for the paths of a split.
SplitFrames(split) ==
    [k \in DOMAIN config.features |->
       read_feather(config.features[k], CacheLen(disk, config.features[k], split))]

\* Lines 100-102: load_dataset of the three splits, in order; the first
\* error ends the run.
LoadSplits ==
    /\ pc = "load_dataset"
    /\ LET train == load_dataset(SplitFrames("train"), {})
           valid == load_dataset(SplitFrames("valid"), {})
           test == load_dataset(SplitFrames("test_full"), {})
       IN  IF ~train.ok
             THEN /\ Raise(train.err)
                  /\ reads' = reads \cup {CacheFile("train")}
                  /\ UNCHANGED <<train_data, valid_data, test_data>>
           ELSE IF ~valid.ok
             THEN /\ Raise(valid.err)
                  /\ reads' = reads \cup {CacheFile("train"), CacheFile("valid")}
                  /\ UNCHANGED <<train_data, valid_data, test_data>>
           ELSE IF ~test.ok
             THEN /\ Raise(test.err)
                  /\ reads' = reads \cup {CacheFile(s) : s \in Splits}
                  /\ UNCHANGED <<train_data, valid_data, test_data>>
           ELSE /\ pc' = "click_id" /\ err' = err
                /\ reads' = reads \cup {CacheFile(s) : s \in Splits}
                /\ train_data' = [index |-> train.value.index,
                                  columns |-> train.value.columns,
                                  is_attributed |-> <<>>]
                /\ valid_data' = [index |-> valid.value.index,
                                  columns |-> valid.value.columns,
                                  is_attributed |-> <<>>]
                /\ test_data' = [index |-> test.value.index,
                                 columns |-> test.value.columns,
                                 click_id |-> <<>>, prediction |-> <<>>]
    /\ UNCHANGED <<config, disk, lgbm, id_mapper, ids_we_need,
                   sampled_train_data, sampled_valid_data,
                   predictions, train_results, i, old_click_to_prediction,
                   submission_csv, result_json, dsvars, ldvars>>

\* frame[column] = value, value a one-column frame read from a source file
\* (its index is 0..len-1): every result the assignment can have, as the
\* frame's new index and the new column's values.  pandas aligns the value
\* on the frame's index: a row the value has no entry for gets NaN, the
\* value's surplus rows are dropped.  A frame without rows is a special
\* case (_ensure_valid_index): it takes over the index of a value that has
\* rows, or, in the pandas releases that cannot convert a frame value there,
\* the assignment raises ValueError.
MutSetColumnByPosition(index, value) ==
    {[ok |-> TRUE, index |-> RangeIndex(Len(value)), values |-> value]}
SetColumn(index, value) ==
    IF Len(index) = 0 /\ Len(value) > 0
      THEN {[ok |-> TRUE, index |-> RangeIndex(Len(value)), values |-> value],
            [ok |-> FALSE, index |-> index, values |-> <<>>]}
      ELSE {[ok |-> TRUE, index |-> index,
             values |-> [k \in 1..Len(index) |->
                           IF index[k] + 1 <= Len(value)
                             THEN value[index[k] + 1] ELSE NaN]]}

\* Line 103: test['click_id'] = get_click_id(config).
AttachClickId ==
    /\ pc = "click_id"
    /\ reads' = reads \cup {SourceFile("test_full")}
    /\ \E r \in SetColumn(test_data.index, disk.source["test_full"]) :
         IF r.ok
           THEN /\ test_data' = [test_data EXCEPT !.index = r.index,
                                                  !.columns = @ \o <<"click_id">>,
                                                  !.click_id = r.values]
                /\ pc' = "train_target" /\ err' = err
           ELSE Raise("ValueError: no index") /\ UNCHANGED test_data
    /\ UNCHANGED <<config, disk, lgbm, id_mapper, ids_we_need, train_data, valid_data,
                   sampled_train_data, sampled_valid_data,
                   predictions, train_results, i, old_click_to_prediction,
                   submission_csv, result_json, dsvars, ldvars>>

\* Line 104: train[target_variable] = get_target(config, 'train').
AttachTrainTarget ==
    /\ pc = "train_target"
    /\ reads' = reads \cup {SourceFile("train")}
    /\ \E r \in SetColumn(train_data.index, disk.source["train"]) :
         IF r.ok
           THEN /\ train_data' = [train_data EXCEPT !.index = r.index,
                                                    !.columns = @ \o <<target_variable>>,
                                                    !.is_attributed = r.values]
                /\ pc' = "valid_target" /\ err' = err
           ELSE Raise("ValueError: no index") /\ UNCHANGED train_data
    /\ UNCHANGED <<config, disk, lgbm, id_mapper, ids_we_need, valid_data, test_data,
                   sampled_train_data, sampled_valid_data,
                   predictions, train_results, i, old_click_to_prediction,
                   submission_csv, result_json, dsvars, ldvars>>

\* Lines 105-106: valid[target_variable] = get_target(config, 'valid');
\* load_datasets returns.
AttachValidTarget ==
    /\ pc = "valid_target"
    /\ reads' = reads \cup {SourceFile("valid")}
    /\ \E r \in SetColumn(valid_data.index, disk.source["valid"]) :
         IF r.ok
           THEN /\ valid_data' = [valid_data EXCEPT !.index = r.index,
                                                    !.columns = @ \o <<target_variable>>,
                                                    !.is_attributed = r.values]
                /\ pc' = "filter_test" /\ err' = err
           ELSE Raise("ValueError: no index") /\ UNCHANGED valid_data
    /\ UNCHANGED <<config, disk, lgbm, id_mapper, ids_we_need, train_data, test_data,
                   sampled_train_data, sampled_valid_data,
                   predictions, train_results, i, old_click_to_prediction,
                   submission_csv, result_json, dsvars, ldvars>>

\* test_data[test_data.click_id.isin(ids)]: the rows whose click id is in
\* ids, in order (NaN is in no identity map).
MutIsinFilterKeepAll(test, ids) == test
IsinFilter(test, ids) ==
    LET keep == SelectSeq([k \in 1..Len(test.index) |-> k],
                          LAMBDA k : test.click_id[k] \in ids)
    IN  [test EXCEPT !.index = [j \in 1..Len(keep) |-> test.index[keep[j]]],
                     !.click_id = [j \in 1..Len(keep) |-> test.click_id[keep[j]]]]

\* range(bagging_size) yields next, or is exhausted.
MutRangeYieldsOneMore(next, bagging_size) == next <= bagging_size
RangeYields(next, bagging_size) == next < bagging_size

\* Lines 151-159: filter the test rows to the ids we need; the lists of
\* predictions and results start empty.  Line 161 picks the mode, line 177
\* starts the loop.
FilterTest ==
    /\ pc = "filter_test"
    /\ test_data' = IsinFilter(test_data, ids_we_need)
    /\ predictions' = <<>>
    /\ train_results' = <<>>
    /\ i' = 0
    /\ pc' = IF ~config.enabled THEN "single"
             ELSE IF RangeYields(0, config.bagging_size) THEN "bagging"
             ELSE "aggregate"
    /\ UNCHANGED <<config, disk, lgbm, err, reads, id_mapper, ids_we_need, train_data,
                   valid_data, sampled_train_data, sampled_valid_data,
                   old_click_to_prediction, submission_csv, result_json,
                   dsvars, ldvars>>

\* booster.predict(test_data[predictors]): one score per row, a function of
\* the row's features, that is of the row.
Predict(run, test) == [j \in 1..Len(test.index) |-> run.pred[test.index[j] + 1]]

\* Lines 162-175: the one trial of the mode without bagging.
TrainSingle ==
    /\ pc = "single"
    /\ LET run == lgbm[None]
       IN  IF run.fails
             THEN Raise("TrainingFailure") /\ UNCHANGED <<predictions, train_results>>
             ELSE /\ predictions' = Append(predictions, Predict(run, test_data))
                  /\ train_results' = Append(train_results,
                       [train_auc |-> run.train_auc,
                        valid_auc |-> run.valid_auc,
                        best_iteration |-> run.best_iteration,
                        time |-> run.elapsed])
                  /\ pc' = "aggregate" /\ err' = err
    /\ UNCHANGED <<config, disk, lgbm, reads, id_mapper, ids_we_need, train_data,
                   valid_data, test_data, sampled_train_data, sampled_valid_data, i,
                   old_click_to_prediction, submission_csv, result_json,
                   dsvars, ldvars>>

\* Lines 177-209: one iteration of the bagging loop, i being the value
\* range() yields.  The model is trained on the two samples; valid_auc is
\* its AUC on the sampled validation view (result['valid']['auc']),
\* valid_auc_original the AUC of its predictions on valid_data.
BagTrial ==
    /\ pc = "bagging"
    /\ \E st \in negative_down_sampling(train_data, i),
          sv \in negative_down_sampling(valid_data, i) :
         IF ~st.ok
           THEN /\ Raise(st.err)
                /\ UNCHANGED <<sampled_train_data, sampled_valid_data, predictions,
                               train_results, i>>
         ELSE IF ~sv.ok
           THEN /\ Raise(sv.err)
                /\ sampled_train_data' = st
                /\ UNCHANGED <<sampled_valid_data, predictions, train_results, i>>
         ELSE LET run == lgbm[st.random_state]
              IN  /\ sampled_train_data' = st
                  /\ sampled_valid_data' = sv
                  /\ IF run.fails
                       THEN /\ Raise("TrainingFailure")
                            /\ UNCHANGED <<predictions, train_results, i>>
                       ELSE /\ predictions' = Append(predictions, Predict(run, test_data))
                            /\ train_results' = Append(train_results,
                                 [train_auc |-> run.train_auc,
                                  valid_auc |-> run.valid_auc,
                                  valid_auc_original |-> run.valid_auc_original,
                                  best_iteration |-> run.best_iteration,
                                  train_time |-> run.elapsed,
                                  prediction_time |-> [test |-> run.elapsed,
                                                       valid |-> run.elapsed],
                                  feature_importance |-> run.importance])
                            /\ i' = i + 1
                            /\ pc' = IF RangeYields(i + 1, config.bagging_size)
                                       THEN "bagging" ELSE "aggregate"
                            /\ err' = err
    /\ UNCHANGED <<config, disk, lgbm, reads, id_mapper, ids_we_need, train_data,
                   valid_data, test_data, old_click_to_prediction, submission_csv,
                   result_json, dsvars, ldvars>>

\* a + b of two arrays.
VecAdd(a, b) == [j \in 1..Len(a) |-> a[j] + b[j]]

\* sum(predictions): 0 + predictions[0] + predictions[1] + ..., of n rows.
RECURSIVE VecSum(_, _)
VecSum(preds, n) ==
    IF preds = <<>> THEN [j \in 1..n |-> 0]
    ELSE VecAdd(VecSum(SubSeq(preds, 1, Len(preds) - 1), n), preds[Len(preds)])

\* sum(predictions) / len(predictions), row by row (len(predictions) > 0).
MutMeanPredictionSkipsFirst(preds, n) ==
    LET total == VecSum(Tail(preds), n)
    IN  [j \in 1..n |-> [num |-> total[j], den |-> Len(preds)]]
MeanPrediction(preds, n) ==
    LET total == VecSum(preds, n)
    IN  [j \in 1..n |-> [num |-> total[j], den |-> Len(preds)]]

\* Line 211: test_data['prediction'] = sum(predictions) / len(predictions).
Aggregate ==
    /\ pc = "aggregate"
    /\ IF Len(predictions) = 0
         THEN Raise("ZeroDivisionError") /\ UNCHANGED test_data
         ELSE /\ test_data' = [test_data EXCEPT
                    !.columns = @ \o <<"prediction">>,
                    !.prediction = MeanPrediction(predictions, Len(test_data.index))]
              /\ pc' = "submission" /\ err' = err
    /\ UNCHANGED <<config, disk, lgbm, reads, id_mapper, ids_we_need, train_data,
                   valid_data, sampled_train_data, sampled_valid_data, predictions,
                   train_results, i, old_click_to_prediction, submission_csv,
                   result_json, dsvars, ldvars>>

\* Lines 212-214: the dict of zip(click_id, prediction); a later row
\* overwrites an earlier one with the same click id.
MakeDict(ids, values) ==
    [c \in Range(ids) |->
       LET last == CHOOSE j \in DOMAIN ids :
                     ids[j] = c /\ \A k \in DOMAIN ids : ids[k] = c => k <= j
       IN  values[last]]

\* Lines 216-223: a row per pair of the identity map whose old id has a
\* prediction, in the map's order.
RECURSIVE MutRemapStopsAtMissing(_, _)
MutRemapStopsAtMissing(mapper, dict) ==
    IF mapper = <<>> THEN <<>>
    ELSE IF Head(mapper).old_click_id \notin DOMAIN dict THEN <<>>
    ELSE <<[click_id |-> Head(mapper).new_click_id,
            is_attributed |-> dict[Head(mapper).old_click_id]]>>
         \o MutRemapStopsAtMissing(Tail(mapper), dict)
RECURSIVE Remap(_, _)
Remap(mapper, dict) ==
    IF mapper = <<>> THEN <<>>
    ELSE IF Head(mapper).old_click_id \notin DOMAIN dict THEN Remap(Tail(mapper), dict)
    ELSE <<[click_id |-> Head(mapper).new_click_id,
            is_attributed |-> dict[Head(mapper).old_click_id]]>>
         \o Remap(Tail(mapper), dict)

\* submission.sort_values(by='click_id'): the rows in ascending order of
\* click_id; the default sort is not stable, so rows with the same click_id
\* come in any order.
SortValues(rows) ==
    {[j \in 1..Len(rows) |-> rows[p[j]]] :
       p \in {q \in Arrangements(1..Len(rows), Len(rows)) :
                \A a, b \in 1..Len(rows) :
                   a < b => rows[q[a]].click_id <= rows[q[b]].click_id}}

\* Lines 212-225: build the submission and write it.
BuildSubmission ==
    /\ pc = "submission"
    /\ old_click_to_prediction' = MakeDict(test_data.click_id, test_data.prediction)
    /\ \E sorted \in SortValues(Remap(id_mapper, old_click_to_prediction')) :
         submission_csv' = [written |-> TRUE, rows |-> sorted]
    /\ pc' = "dump_json_log"
    /\ UNCHANGED <<config, disk, lgbm, err, reads, id_mapper, ids_we_need, train_data,
                   valid_data, test_data, sampled_train_data, sampled_valid_data,
                   predictions, train_results, i, result_json, dsvars, ldvars>>

\* [result[key] for result in results]: the values, or a KeyError.
HasKey(results, key) == \A k \in DOMAIN results : key \in DOMAIN results[k]
Column(results, key) == [k \in DOMAIN results |-> results[k][key]]

\* np.mean, and np.std by its square (the population variance), as
\* rationals; of no value they are nan (den = 0).
Mean(xs) == [num |-> SeqSum(xs), den |-> Len(xs)]
StdSquared(xs) ==
    [num |-> Len(xs) * SeqSum([k \in DOMAIN xs |-> xs[k] * xs[k]]) - SeqSum(xs) * SeqSum(xs),
     den |-> Len(xs) * Len(xs)]

\* The key of a trial's result that holds the validation AUC the log
\* averages (lines 119, 121).
MutValidAucKeyOriginal == "valid_auc_original"
ValidAucKey == "valid_auc"

\* dump_json_log, lines 113-128: the record it writes, or the KeyError of
\* the first key a result lacks.
dump_json_log(cfg, results) ==
    IF ~HasKey(results, "train_auc") THEN [ok |-> FALSE, err |-> "KeyError: train_auc"]
    ELSE IF ~HasKey(results, ValidAucKey) THEN [ok |-> FALSE, err |-> "KeyError: valid_auc"]
    ELSE IF ~HasKey(results, "train_time") THEN [ok |-> FALSE, err |-> "KeyError: train_time"]
    ELSE [ok |-> TRUE, err |-> "",
          value |-> [written |-> TRUE,
                     training |->
                       [trials |-> results,
                        average_train_auc |-> Mean(Column(results, "train_auc")),
                        average_valid_auc |-> Mean(Column(results, ValidAucKey)),
                        train_auc_std |-> StdSquared(Column(results, "train_auc")),
                        valid_auc_std |-> StdSquared(Column(results, ValidAucKey)),
                        average_train_time |-> Mean(Column(results, "train_time"))],
                     config |-> cfg]]

\* Line 226: dump_json_log(options, train_results); main returns.
DumpJsonLog ==
    /\ pc = "dump_json_log"
    /\ reads' = reads \cup {ConfigFile}
    /\ LET r == dump_json_log(config, train_results)
       IN  IF r.ok
             THEN result_json' = r.value /\ pc' = "done" /\ err' = err
             ELSE Raise(r.err) /\ UNCHANGED result_json
    /\ UNCHANGED <<config, disk, lgbm, id_mapper, ids_we_need, train_data,
                   valid_data, test_data, sampled_train_data, sampled_valid_data,
                   predictions, train_results, i, old_click_to_prediction,
                   submission_csv, dsvars, ldvars>>

(***************************************************************************)
(* The runs checked.  A run is fixed by its configuration, the files on    *)
(* disk and the behaviour of the external model.  Each family below varies *)
(* one of them exhaustively within the bounds around a base run.           *)
(***************************************************************************)
LgbmKeys == {None} \cup 0..MaxBag
Probs == 0..MaxProb
Aucs == 0..MaxAuc
NewIds == {100, 101}
MapRows == [new_click_id : NewIds, old_click_id : 1..MaxId]
FeatureLists == {<<>>, <<"ip">>, <<"ip", "app">>, <<"ip", "clicks_per_ip">>}

BaseRun(key) ==
    [fails |-> FALSE,
     train_auc |-> MaxAuc,
     valid_auc |-> MaxAuc,
     valid_auc_original |-> 0,
     best_iteration |-> 1,
     elapsed |-> 1,
     importance |-> <<>>,
     pred |-> [r \in 1..MaxRows |-> (r + (IF key = None THEN 0 ELSE key)) % (MaxProb + 1)]]

BaseLgbm == [key \in LgbmKeys |-> BaseRun(key)]

BaseDisk ==
    [id_mapper_exists |-> TRUE,
     id_mapper |-> <<[new_click_id |-> 100, old_click_id |-> 1],
                     [new_click_id |-> 101, old_click_id |-> 2]>>,
     source |-> [s \in Splits |->
                   IF s = "train" THEN <<1, 0>>
                   ELSE IF s = "valid" THEN <<0, 1>>
                   ELSE <<1, 2>>],
     cache |-> [f \in {"ip", "app"} |-> [s \in Splits |-> Absent]]]

BaseConfig(enabled, bagging_size) ==
    [model_name |-> "lightgbm", features |-> <<"ip">>,
     enabled |-> enabled, bagging_size |-> bagging_size]

\* One run per mode.
Modes(bagging_size) == {BaseConfig(FALSE, bagging_size), BaseConfig(TRUE, bagging_size)}

\* The training runs a configuration makes.
KeysUsed(cfg) == IF cfg.enabled THEN 0..(cfg.bagging_size - 1) ELSE {None}

\* Every configuration, with and without the identity map's file.
InitConfigs ==
    \E cfg \in [model_name : {"lightgbm", "xgboost"}, features : FeatureLists,
                enabled : BOOLEAN, bagging_size : 0..MaxBag],
       exists \in BOOLEAN :
         MainStart(cfg, [BaseDisk EXCEPT !.id_mapper_exists = exists], BaseLgbm)

\* Every identity map and every test split.
InitIds ==
    \E cfg \in {BaseConfig(TRUE, 1)},
       mapper \in SeqsOf(MapRows, 0, MaxMap),
       test \in SeqsOf(1..MaxId, 0, MaxRows) :
         MainStart(cfg, [BaseDisk EXCEPT !.id_mapper = mapper,
                                         !.source["test_full"] = test], BaseLgbm)

\* Every source file and every pair of cached frames of one split, fresh
\* (absent before the run) or left by an earlier run.
InitCaches ==
    \E cfg \in Modes(1), features \in {<<"ip">>, <<"ip", "app">>}, s \in Splits :
    \E rows \in SeqsOf(IF s = "test_full" THEN 1..MaxId ELSE {0, 1}, 0, MaxRows),
       ip \in {Absent} \cup 0..MaxRows, app \in {Absent} \cup 0..MaxRows :
         MainStart([cfg EXCEPT !.features = features],
                   [BaseDisk EXCEPT !.source[s] = rows,
                                    !.cache["ip"][s] = ip,
                                    !.cache["app"][s] = app], BaseLgbm)

\* Every outcome of the external model: its AUCs, its scores on the rows of
\* the test split, its failure.
InitModel ==
    \E cfg \in Modes(MaxBag) :
       \/ \E aucs \in [KeysUsed(cfg) -> [valid : Aucs, original : Aucs]] :
            MainStart(cfg, BaseDisk,
               [key \in LgbmKeys |->
                  IF key \in KeysUsed(cfg)
                    THEN [BaseRun(key) EXCEPT !.valid_auc = aucs[key].valid,
                                              !.valid_auc_original = aucs[key].original]
                    ELSE BaseRun(key)])
       \/ \E aucs \in [KeysUsed(cfg) -> Aucs] :
            MainStart(cfg, BaseDisk,
               [key \in LgbmKeys |->
                  IF key \in KeysUsed(cfg)
                    THEN [BaseRun(key) EXCEPT !.train_auc = aucs[key]]
                    ELSE BaseRun(key)])
       \/ \E preds \in [KeysUsed(cfg) -> [DOMAIN BaseDisk.source["test_full"] -> Probs]] :
            MainStart(cfg, BaseDisk,
               [key \in LgbmKeys |->
                  IF key \in KeysUsed(cfg)
                    THEN [BaseRun(key) EXCEPT !.pred =
                            [r \in 1..MaxRows |->
                               IF r \in DOMAIN preds[key] THEN preds[key][r] ELSE 0]]
                    ELSE BaseRun(key)])
       \/ \E fails \in [KeysUsed(cfg) -> BOOLEAN] :
            MainStart(cfg, BaseDisk,
               [key \in LgbmKeys |->
                  IF key \in KeysUsed(cfg)
                    THEN [BaseRun(key) EXCEPT !.fails = fails[key]]
                    ELSE BaseRun(key)])

Init ==
    /\ InitConfigs \/ InitIds \/ InitCaches \/ InitModel
    /\ DSIdle
    /\ LDIdle

Next ==
    \/ ParseConfig
    \/ ReadIdMapper
    \/ ResolveFeatures
    \/ CreateFeatures
    \/ LoadSplits
    \/ AttachClickId
    \/ AttachTrainTarget
    \/ AttachValidTarget
    \/ FilterTest
    \/ TrainSingle
    \/ BagTrial
    \/ Aggregate
    \/ BuildSubmission
    \/ DumpJsonLog

Spec == Init /\ [][Next]_vars

(***************************************************************************)
(* Properties.                                                             *)
(***************************************************************************)
CountLabel(labels, v) == Cardinality({k \in DOMAIN labels : labels[k] = v})

\* C1 as claimed: for every labelled data set with positive fraction p,
\* 0 < p < 1, negative_down_sampling returns a data set whose positive
\* fraction is p (positives_out / rows_out = positives_in / rows_in).
C1_PositiveFractionPreserved ==
    LET P == CountLabel(ds_data.is_attributed, 1)
        N == Len(ds_data.index)
    IN  (ds_out # NotCalled /\ 0 < P /\ P < N) =>
          /\ ds_out.ok
          /\ CountLabel(ds_out.value.is_attributed, 1) * N
               = P * Len(ds_out.value.index)

\* C1 amended: for 0 < p <= 1/2 the result holds every positive row, in
\* order, followed by as many distinct negative rows of the input as there
\* are positive rows, so that its positive fraction is 1/2; for
\* 1/2 < p < 1 the call raises and returns nothing.
C1_NegativesSampledToPositiveCount ==
    LET P == CountLabel(ds_data.is_attributed, 1)
        N == Len(ds_data.index)
    IN  (ds_out # NotCalled /\ 0 < P /\ P < N) =>
          IF 2 * P <= N
            THEN /\ ds_out.ok
                 /\ ds_out.random_state = ds_seed
                 /\ LET out == ds_out.value
                    IN  /\ Len(out.index) = 2 * P
                        /\ Len(out.is_attributed) = 2 * P
                        /\ SubSeq(out.index, 1, P) = RowsWithLabel(ds_data, 1).index
                        /\ \A k \in 1..(2 * P) :
                             /\ out.is_attributed[k] = (IF k <= P THEN 1 ELSE 0)
                             /\ ds_data.is_attributed[out.index[k] + 1] = out.is_attributed[k]
                        /\ \A a, b \in 1..(2 * P) : a # b => out.index[a] # out.index[b]
            ELSE ~ds_out.ok

\* C1 witness: a call that returned and dropped negative rows.
C1_Witness ==
    /\ ds_out # NotCalled
    /\ ds_out.ok
    /\ CountLabel(ds_data.is_attributed, 1) >= 2
    /\ Len(ds_out.value.index) < Len(ds_data.index)

\* C7: for a non-empty list of frames, load_dataset fails whenever a frame's
\* index differs from the first frame's; when it returns, every frame has
\* the first frame's index, which is the result's, and the result's columns
\* are the frames' columns, in order.
C7_LoadDatasetAligned ==
    (ld_out # NotCalled /\ Len(ld_frames) > 0) =>
      /\ (\E k \in DOMAIN ld_frames : ld_frames[k].index # ld_frames[1].index) => ~ld_out.ok
      /\ ld_out.ok =>
           /\ \A k \in DOMAIN ld_frames : ld_frames[k].index = ld_frames[1].index
           /\ ld_out.value.index = ld_frames[1].index
           /\ Len(ld_out.value.columns) = Len(ld_frames)
           /\ \A k \in DOMAIN ld_frames : ld_out.value.columns[k] = ld_frames[k].columns[1]

\* C7 witness: a call that failed on a frame after the second, the first
\* two being aligned.
C7_Witness ==
    /\ ld_out # NotCalled
    /\ ~ld_out.ok
    /\ ld_index = {}
    /\ Len(ld_frames) >= 3
    /\ ld_frames[2].index = ld_frames[1].index
    /\ ld_frames[3].index # ld_frames[1].index

\* The pair of the identity map at k has a prediction; the row it yields.
HasPrediction(k) == id_mapper[k].old_click_id \in DOMAIN old_click_to_prediction
RowOfPair(k) ==
    [click_id |-> id_mapper[k].new_click_id,
     is_attributed |-> old_click_to_prediction[id_mapper[k].old_click_id]]

\* C2: the submission written holds, for the predictions keyed by old click
\* id (one per click id of the test rows), exactly the rows
\* (new_id, prediction[old_id]) of the pairs of the identity map whose
\* old_id has a prediction, each as often as there are such pairs, and
\* no other row.
C2_SubmissionIsRemappedPredictions ==
    submission_csv.written =>
      LET rows == submission_csv.rows
          expected == {RowOfPair(k) : k \in {m \in DOMAIN id_mapper : HasPrediction(m)}}
      IN  /\ DOMAIN old_click_to_prediction = Range(test_data.click_id)
          /\ \A j \in DOMAIN test_data.click_id :
               (\A k \in DOMAIN test_data.click_id :
                   test_data.click_id[k] = test_data.click_id[j] => k <= j)
               => old_click_to_prediction[test_data.click_id[j]] = test_data.prediction[j]
          /\ Len(rows) = Cardinality({k \in DOMAIN id_mapper : HasPrediction(k)})
          /\ \A r \in Range(rows) \cup expected :
               Cardinality({j \in DOMAIN rows : rows[j] = r})
                 = Cardinality({k \in DOMAIN id_mapper : HasPrediction(k) /\ RowOfPair(k) = r})

\* C2 witness: a submission written from an identity map with a pair
\* whose old id has no prediction followed by a pair whose old id has one,
\* and a test split with a click id the map does not hold.
C2_Witness ==
    /\ submission_csv.written
    /\ Len(id_mapper) >= 2
    /\ ~HasPrediction(1)
    /\ HasPrediction(2)
    /\ \E j \in DOMAIN disk.source["test_full"] :
         disk.source["test_full"][j] \notin ids_we_need

NamesUnknownFeature == \E k \in DOMAIN config.features : config.features[k] \notin feature_map

\* C3 as claimed: when the run fails on an unknown feature, neither the
\* identity map, nor a split source file, nor a feature cache file has been
\* read, and no output is written.
C3_UnknownFeatureFailsBeforeAnyRead ==
    (pc = "failed" /\ err = "AssertionError: Uknown feature") =>
      /\ IdMapperFile \notin reads
      /\ reads \cap DatasetFiles = {}
      /\ ~submission_csv.written
      /\ ~result_json.written

\* C3 amended: a run whose configuration names an unknown feature never
\* reads a split source file or a feature cache file and never writes an
\* output: it ends at the latest in the check at the head of
\* load_datasets, which runs after the configuration and the identity map
\* have been read.
C3_UnknownFeatureFailsBeforeDatasets ==
    NamesUnknownFeature =>
      /\ reads \cap DatasetFiles = {}
      /\ ~submission_csv.written
      /\ ~result_json.written
      /\ pc \in {"main", "id_mapper", "load_datasets", "failed"}
      /\ err = "AssertionError: Uknown feature" => reads = {ConfigFile, IdMapperFile}

\* C3 witness: the run failed on the unknown feature.
C3_Witness ==
    /\ NamesUnknownFeature
    /\ pc = "failed"
    /\ err = "AssertionError: Uknown feature"
    /\ IdMapperFile \in reads

\* C4: in both modes every result appended by main carries the keys
\* dump_json_log reads, so that the reduction never fails.
C4_ResultsCarryReducedKeys ==
    /\ \A k \in DOMAIN train_results :
         {"train_auc", "valid_auc", "train_time"} \subseteq DOMAIN train_results[k]
    /\ ~(pc = "failed" /\ err \in {"KeyError: train_auc", "KeyError: valid_auc",
                                   "KeyError: train_time"})

\* The AUCs of the models of the trials 0..n-1, in order: on the original
\* validation split, and on its down-sampled view.
OriginalAucs(n) == [k \in 1..n |-> lgbm[k - 1].valid_auc_original]
SampledAucs(n) == [k \in 1..n |-> lgbm[k - 1].valid_auc]
SampledAucSquares(n) == [k \in 1..n |-> lgbm[k - 1].valid_auc * lgbm[k - 1].valid_auc]

\* C5 as claimed: with bagging, the validation AUC the log averages is the
\* AUC of each trial's model on the original validation split.
C5_LogAveragesOriginalValidAuc ==
    (config.enabled /\ result_json.written) =>
      LET B == config.bagging_size
      IN  result_json.training.average_valid_auc =
            [num |-> SeqSum(OriginalAucs(B)), den |-> B]

\* C5 amended: with bagging, every trial's result holds both the AUC on the
\* original validation split (valid_auc_original) and the AUC on the
\* down-sampled view (valid_auc); the mean and the standard deviation the
\* log gives for the validation AUC are those of valid_auc, the AUC on the
\* down-sampled view.
C5_LogAveragesSampledValidAuc ==
    (config.enabled /\ result_json.written) =>
      LET B == config.bagging_size
          trials == result_json.training.trials
      IN  /\ Len(trials) = B
          /\ \A k \in 1..B : /\ trials[k].valid_auc_original = OriginalAucs(B)[k]
                             /\ trials[k].valid_auc = SampledAucs(B)[k]
          /\ result_json.training.average_valid_auc =
               [num |-> SeqSum(SampledAucs(B)), den |-> B]
          /\ result_json.training.valid_auc_std =
               [num |-> B * SeqSum(SampledAucSquares(B))
                          - SeqSum(SampledAucs(B)) * SeqSum(SampledAucs(B)),
                den |-> B * B]

\* C5 witness: a log written after two trials whose two AUCs differ, and
\* whose sums over the trials differ.
C5_Witness ==
    /\ config.enabled
    /\ result_json.written
    /\ config.bagging_size >= 2
    /\ SeqSum(SampledAucs(config.bagging_size))
         # SeqSum(OriginalAucs(config.bagging_size))

\* The value a row of an assembled split holds at position k: the label or
\* the click id of the k-th event of the source file, NaN beyond its end.
SourceValue(split, k) ==
    IF k <= Len(disk.source[split]) THEN disk.source[split][k] ELSE NaN

\* C6 as claimed: when load_datasets has returned, every assembled split
\* has as many rows as its source file has events, and every row has its
\* label or click id, whatever the lengths of the cached frames.
C6_RowCountIsSourceCount ==
    pc = "filter_test" =>
      /\ Len(train_data.index) = Len(disk.source["train"])
      /\ Len(valid_data.index) = Len(disk.source["valid"])
      /\ Len(test_data.index) = Len(disk.source["test_full"])
      /\ NaN \notin Range(train_data.is_attributed)
      /\ NaN \notin Range(valid_data.is_attributed)
      /\ NaN \notin Range(test_data.click_id)

\* An assembled split, given its index and its attached column: it has as
\* many rows as each of its cached frames, or, the cached frames being
\* empty, as its source file; its rows are the first of the source file, in
\* order, and a row beyond the source file's end holds NaN.
AssembledFromCache(split, index, values) ==
    LET cached == CacheLen(disk, config.features[1], split)
    IN  /\ \A k \in DOMAIN config.features :
             CacheLen(disk, config.features[k], split) = cached
        /\ Len(index) = (IF cached = 0 THEN Len(disk.source[split]) ELSE cached)
        /\ index = RangeIndex(Len(index))
        /\ Len(values) = Len(index)
        /\ \A k \in DOMAIN values : values[k] = SourceValue(split, k)

\* C6 amended: when load_datasets has returned, every assembled split has as
\* many rows as its cached feature frames have (as its source file has if
\* the cached frames are empty): as many as the source file has events only
\* if the cached frames have that length, as those computed in this run
\* have; with longer cached frames the surplus rows hold NaN for the label
\* or click id, with shorter ones the surplus events are dropped.
C6_RowCountIsCachedCount ==
    pc = "filter_test" =>
      /\ AssembledFromCache("train", train_data.index, train_data.is_attributed)
      /\ AssembledFromCache("valid", valid_data.index, valid_data.is_attributed)
      /\ AssembledFromCache("test_full", test_data.index, test_data.click_id)

\* C6 witness: load_datasets returned a training split with a row more than
\* the source file has events, which holds no label.
C6_Witness ==
    /\ pc = "filter_test"
    /\ Len(train_data.index) > Len(disk.source["train"])
    /\ Len(disk.source["train"]) > 0
    /\ NaN \in Range(train_data.is_attributed)

\* The sum of the scores the trials 1..n give row j.
RECURSIVE RowTotal(_, _)
RowTotal(j, n) == IF n = 0 THEN 0 ELSE RowTotal(j, n - 1) + predictions[n][j]

Aggregated == pc \in {"submission", "dump_json_log", "done"}

\* C8: the score main assigns to a test row is the arithmetic mean of the
\* scores the trials give the row: their sum over the number of trials;
\* without bagging it is the one model's score.
C8_ScoreIsMeanOfTrials ==
    Aggregated =>
      /\ Len(test_data.prediction) = Len(test_data.index)
      /\ \A j \in DOMAIN test_data.prediction :
           /\ test_data.prediction[j].den = Len(predictions)
           /\ test_data.prediction[j].num = RowTotal(j, Len(predictions))
           /\ ~config.enabled =>
                test_data.prediction[j] = [num |-> predictions[1][j], den |-> 1]

\* C8 witness: the scores of two trials that differ on a row have been
\* averaged.
C8_Witness ==
    /\ Aggregated
    /\ Len(predictions) >= 2
    /\ \E j \in DOMAIN test_data.index : predictions[1][j] # predictions[2][j]

\* The training run of the k-th trial.
TrialKey(k) == IF config.enabled THEN k - 1 ELSE None

\* C9: with bagging, main runs the trials i = 0, 1, ..., B-1 in order;
\* trial i samples the train and the valid split with seed i and appends
\* one vector of scores and one result, so that when aggregation starts
\* both lists have B entries (one without bagging), the k-th being those
\* of the model of seed k.
C9_TrialsInSeedOrder ==
    /\ pc = "bagging" =>
         /\ i < config.bagging_size
         /\ i > 0 => /\ sampled_train_data.random_state = i - 1
                     /\ sampled_valid_data.random_state = i - 1
    /\ pc \in {"bagging", "aggregate"} =>
         /\ Len(predictions) = Len(train_results)
         /\ config.enabled => Len(predictions) = i
         /\ \A k \in DOMAIN predictions :
              /\ predictions[k] = Predict(lgbm[TrialKey(k)], test_data)
              /\ train_results[k].train_auc = lgbm[TrialKey(k)].train_auc
              /\ train_results[k].valid_auc = lgbm[TrialKey(k)].valid_auc
    /\ pc = "aggregate" =>
         /\ Len(predictions) = (IF config.enabled THEN config.bagging_size ELSE 1)
         /\ (config.enabled /\ config.bagging_size > 0) =>
              /\ sampled_train_data.random_state = config.bagging_size - 1
              /\ sampled_valid_data.random_state = config.bagging_size - 1

\* C9 witness: aggregation starts after two trials whose models differ.
C9_Witness ==
    /\ pc = "aggregate"
    /\ config.enabled
    /\ config.bagging_size >= 2
    /\ Len(predictions) = config.bagging_size
    /\ predictions[1] # predictions[2]

\* main is past the filter of line 151.
Filtered == pc \in {"single", "bagging", "aggregate", "submission", "dump_json_log", "done"}

\* C10: the test rows are filtered to the click ids of the identity map
\* before the first training and are the same rows from then on: every row
\* a model predicts on has its click id in the map's old ids, and every
\* such click id yields a row of the submission, with the row's score.
C10_TestFilteredBeforeTraining ==
    /\ [](/\ (Filtered \/ Len(predictions) > 0) =>
               \A j \in DOMAIN test_data.click_id : test_data.click_id[j] \in ids_we_need
          /\ \A k \in DOMAIN predictions : Len(predictions[k]) = Len(test_data.index)
          /\ submission_csv.written =>
               \A j \in DOMAIN test_data.click_id :
                  \E k \in DOMAIN id_mapper, r \in DOMAIN submission_csv.rows :
                     /\ id_mapper[k].old_click_id = test_data.click_id[j]
                     /\ submission_csv.rows[r].click_id = id_mapper[k].new_click_id
                     /\ submission_csv.rows[r].is_attributed
                          = old_click_to_prediction[test_data.click_id[j]])
    /\ [][Filtered => /\ test_data'.index = test_data.index
                      /\ test_data'.click_id = test_data.click_id]_vars

\* C10 witness: a submission written for a test split of which the filter
\* dropped a row and kept a row.
C10_Witness ==
    /\ submission_csv.written
    /\ Len(test_data.index) >= 1
    /\ Len(test_data.index) < Len(disk.source["test_full"])

====
